---- MODULE Spec2Model ----
(***************************************************************************)
(* Image-moderation bot: warning ledger (ModerationData), escalation       *)
(* policy (EscalationSystem), JSON persistence and the on_message          *)
(* enforcement pipeline of bot.py, with the classifier of run_time.py.     *)
(*                                                                         *)
(* Units: durations are minutes; scores are thousandths (analyze_image     *)
(* rounds to 3 decimals), so 0.5 is 500 and the sentinel -1.0 is -1000.    *)
(* Guild and user ids are positive integers; 0 stands for Python's None.   *)
(* The code keys its dicts by str(id), which is injective, so the model    *)
(* keys its maps by the id itself.                                         *)
(***************************************************************************)
EXTENDS Integers, Sequences, FiniteSets, TLC

\* ------------------------------------------------------------------ bounds
MaxTasks == 2
MaxEvents == 2
MaxAttach == 2
MaxCount == 6
MaxOps == 4

\* ------------------------------------------------------- program constants
NSFW_THRESHOLD == 500
ANALYSIS_ERROR == -1000

NONE == 0
Guilds == {1, 2}
Users == {1, 2}
Tasks == 1..MaxTasks

\* ---------------------------------------------------------------- helpers
Min(a, b) == IF a < b THEN a ELSE b

MaxOf(S) == CHOOSE x \in S : \A y \in S : y <= x

EmptyMap == [x \in {} |-> 0]

Put(f, k, v) == [x \in (DOMAIN f) \cup {k} |-> IF x = k THEN v ELSE f[x]]

Del(f, k) == [x \in (DOMAIN f) \ {k} |-> f[x]]

SortedSeq(S) ==
  CHOOSE s \in [1..Cardinality(S) -> S] :
    \A i, j \in 1..Cardinality(S) : i < j => s[i] < s[j]

RECURSIVE SumValues(_)
SumValues(f) ==
  IF DOMAIN f = {} THEN 0
  ELSE LET k == CHOOSE x \in DOMAIN f : TRUE
       IN  f[k] + SumValues([x \in (DOMAIN f) \ {k} |-> f[x]])

RECURSIVE Flatten(_)
Flatten(ss) == IF ss = <<>> THEN <<>> ELSE Head(ss) \o Flatten(Tail(ss))

\* ------------------------------------------------------ EscalationSystem
\* TIMEOUT_LEVELS, in minutes.
TIMEOUT_LEVELS == (1 :> 10) @@ (2 :> 60) @@ (3 :> 180) @@ (4 :> 360)

\* A variant that caps the lookup one level too early.
calculate_timeout_cap3(warning_count) ==
  LET k == Min(warning_count, 3)
  IN  IF k \in DOMAIN TIMEOUT_LEVELS THEN TIMEOUT_LEVELS[k] ELSE TIMEOUT_LEVELS[4]

\* cls.TIMEOUT_LEVELS.get(min(warning_count, 4), cls.TIMEOUT_LEVELS[4])
calculate_timeout(warning_count) ==
  LET k == Min(warning_count, 4)
  IN  IF k \in DOMAIN TIMEOUT_LEVELS THEN TIMEOUT_LEVELS[k] ELSE TIMEOUT_LEVELS[4]

\* The rendered string "<h>h <m>m" or "<m>m", kept as its parts.
format_duration(duration) ==
  LET total_seconds == duration * 60
      hours == total_seconds \div 3600
      remainder == total_seconds % 3600
      minutes == remainder \div 60
  IN  IF hours > 0 THEN [withHours |-> TRUE, h |-> hours, m |-> minutes]
      ELSE [withHours |-> FALSE, h |-> 0, m |-> minutes]

\* -------------------------------------------------------- ModerationData
\* self.data as built by __init__ and by the fallback of load_data. A Python
\* value carries its type and the maps and sequences of the model do not, so
\* `mistyped` names the sections (1: enabled_servers, 2: user_warnings,
\* 3: moderation_log) whose value is not the dict, dict of dicts or list the
\* code takes it for; such a section is kept without entries.
DefaultData ==
  [enabled_servers |-> EmptyMap, user_warnings |-> EmptyMap, moderation_log |-> <<>>,
   mistyped |-> {}]

\* A variant whose default for a guild without entry is True.
is_enabled_default_on(d, guild_id) ==
  IF guild_id \in DOMAIN d.enabled_servers THEN d.enabled_servers[guild_id] ELSE TRUE

is_enabled(d, guild_id) ==
  IF guild_id \in DOMAIN d.enabled_servers THEN d.enabled_servers[guild_id] ELSE FALSE

\* A variant that rebuilds the dict around the one entry.
set_enabled_replace(d, guild_id, enabled) ==
  [d EXCEPT !.enabled_servers = Put(EmptyMap, guild_id, enabled)]

set_enabled(d, guild_id, enabled) ==
  [d EXCEPT !.enabled_servers = Put(@, guild_id, enabled)]

get_user_warnings(d, guild_id, user_id) ==
  LET server_warnings ==
        IF guild_id \in DOMAIN d.user_warnings THEN d.user_warnings[guild_id] ELSE EmptyMap
  IN  IF user_id \in DOMAIN server_warnings THEN server_warnings[user_id] ELSE 0

\* A variant without the "if guild_id_str not in ..." test: the guild's
\* dict is recreated on every call.
increment_warning_fresh(d, guild_id, user_id) ==
  LET d1 == [d EXCEPT !.user_warnings = Put(@, guild_id, EmptyMap)]
  IN  [d1 EXCEPT !.user_warnings =
         Put(@, guild_id,
             Put(d1.user_warnings[guild_id], user_id,
                 get_user_warnings(d1, guild_id, user_id) + 1))]

increment_warning(d, guild_id, user_id) ==
  LET d1 == IF guild_id \notin DOMAIN d.user_warnings
            THEN [d EXCEPT !.user_warnings = Put(@, guild_id, EmptyMap)]
            ELSE d
  IN  [d1 EXCEPT !.user_warnings =
         Put(@, guild_id,
             Put(d1.user_warnings[guild_id], user_id,
                 get_user_warnings(d1, guild_id, user_id) + 1))]

\* A variant whose one-member mode clears the member's whole guild.
reset_warnings_whole_guild(d, guild_id, user_id) ==
  IF guild_id # NONE THEN
    IF guild_id \in DOMAIN d.user_warnings
    THEN [d EXCEPT !.user_warnings = Put(@, guild_id, EmptyMap)]
    ELSE d
  ELSE [d EXCEPT !.user_warnings = EmptyMap]

\* guild_id / user_id = NONE model the omitted arguments ("if guild_id and
\* user_id" is truthiness, and ids are never 0).
reset_warnings(d, guild_id, user_id) ==
  IF guild_id # NONE /\ user_id # NONE THEN
    IF guild_id \in DOMAIN d.user_warnings /\ user_id \in DOMAIN d.user_warnings[guild_id]
    THEN [d EXCEPT !.user_warnings = Put(@, guild_id, Del(d.user_warnings[guild_id], user_id))]
    ELSE d
  ELSE IF guild_id # NONE THEN
    IF guild_id \in DOMAIN d.user_warnings
    THEN [d EXCEPT !.user_warnings = Put(@, guild_id, EmptyMap)]
    ELSE d
  ELSE [d EXCEPT !.user_warnings = EmptyMap]

\* ------------------------------------------------- the persisted document
\* The JSON text is modelled as a sequence of tokens, one per bracket,
\* section key and entry, so that a document has a length, prefixes, and
\* can be overwritten in place. Keys are written in increasing order. The
\* outer bracket is a = 0 for an object and a = 1 for an array; a section
\* key has b = 0 when its value is the container the code expects and b = 1
\* when it is a value of another type.
NoEntry == [score |-> 0, count |-> 0, duration |-> 0, deleted |-> FALSE, timed_out |-> FALSE]

Tok(t, a, b) == [t |-> t, a |-> a, b |-> b, e |-> NoEntry]

LogTok(entry) == [t |-> "log", a |-> 0, b |-> 0, e |-> entry]

EnabledTokens(m) ==
  LET ks == SortedSeq(DOMAIN m)
  IN  [i \in 1..Len(ks) |-> Tok("en", ks[i], IF m[ks[i]] THEN 1 ELSE 0)]

UserTokens(m) ==
  LET ks == SortedSeq(DOMAIN m)
  IN  [i \in 1..Len(ks) |-> Tok("warn", ks[i], m[ks[i]])]

WarningTokens(w) ==
  LET gs == SortedSeq(DOMAIN w)
  IN  Flatten([i \in 1..Len(gs) |-> <<Tok("guild", gs[i], 0)>> \o UserTokens(w[gs[i]])])

LogTokens(l) == [i \in 1..Len(l) |-> LogTok(l[i])]

SecTok(d, i) == Tok("sec", i, IF i \in d.mistyped THEN 1 ELSE 0)

\* json.dumps(self.data, indent=2)
dumps(d) ==
  <<Tok("open", 0, 0), SecTok(d, 1)>> \o EnabledTokens(d.enabled_servers)
    \o <<SecTok(d, 2)>> \o WarningTokens(d.user_warnings)
    \o <<SecTok(d, 3)>> \o LogTokens(d.moderation_log)
    \o <<Tok("close", 0, 0)>>

Inner(s) == 2..(Len(s) - 1)

\* The section (1, 2, 3; 0 for none) the token at index i lies in.
SecAt(s, i) ==
  LET H == {j \in Inner(s) : j <= i /\ s[j].t = "sec"}
  IN  IF H = {} THEN 0 ELSE s[MaxOf(H)].a

\* json.loads accepts the text and the result has a .get: one complete
\* object (a top-level array makes loaded_data.get raise), every entry
\* inside the section of its kind, no entry in a section of another type.
loads_ok(s) ==
  /\ Len(s) >= 2
  /\ s[1] = Tok("open", 0, 0)
  /\ s[Len(s)] = Tok("close", 0, 0)
  /\ \A i \in Inner(s) :
       /\ s[i].t \in {"en", "guild", "warn", "log"} =>
            \A j \in Inner(s) : (j < i /\ s[j].t = "sec" /\ s[j].a = SecAt(s, i)) => s[j].b = 0
       /\ s[i].t \notin {"open", "close"}
       /\ s[i].t = "sec" =>
            /\ s[i].a \in 1..3
            /\ \A j \in Inner(s) : (j # i /\ s[j].t = "sec") => s[j].a # s[i].a
       /\ s[i].t = "en" => SecAt(s, i) = 1
       /\ s[i].t \in {"guild", "warn"} => SecAt(s, i) = 2
       /\ s[i].t = "warn" => \E j \in Inner(s) : j < i /\ s[j].t = "guild"
       /\ s[i].t = "log" => SecAt(s, i) = 3

\* The three sections load_data keeps of an accepted document, a missing
\* section defaulting to empty; a repeated key keeps its last value.
loads(s) ==
  LET E == {i \in Inner(s) : s[i].t = "en"}
      G == {i \in Inner(s) : s[i].t = "guild"}
      Members(gi) == {j \in Inner(s) : j > gi /\ \A k \in (gi + 1)..j : s[k].t = "warn"}
      UserMap(gi) ==
        [u \in {s[j].a : j \in Members(gi)} |->
           s[MaxOf({j \in Members(gi) : s[j].a = u})].b]
      L == SelectSeq(s, LAMBDA x : x.t = "log")
  IN  [enabled_servers |->
         [g \in {s[i].a : i \in E} |-> s[MaxOf({i \in E : s[i].a = g})].b = 1],
       user_warnings |->
         [g \in {s[i].a : i \in G} |-> UserMap(MaxOf({i \in G : s[i].a = g}))],
       moderation_log |-> [i \in 1..Len(L) |-> L[i].e],
       mistyped |-> {s[i].a : i \in {j \in Inner(s) : s[j].t = "sec" /\ s[j].b = 1}}]

\* What the file holds after `content` is written at offset 0 of a file
\* holding `old`: bytes of `old` beyond the new content stay in place.
Overlay(old, content) ==
  content \o SubSeq(old, Len(content) + 1, Len(old))

\* ------------------------------------------------------------ environment
\* Scores analyze_image can return: the sentinel, below, at and above the
\* threshold (two distinct violating scores).
Scores == {ANALYSIS_ERROR, 500, 600, 800}

\* Outcomes of message.delete(), member.timeout() (ok, discord.Forbidden,
\* any other exception).
Outcomes == {"ok", "forbidden", "error"}

\* attachment.content_type contains "image" (TRUE) or not (FALSE).
AttSeqs == UNION {[1..n -> BOOLEAN] : n \in 0..MaxAttach}

Msg(author, bot, admin, guild, cmd, arg, atts) ==
  [author |-> author, bot |-> bot, admin |-> admin, guild |-> guild,
   cmd |-> cmd, arg |-> arg, atts |-> atts]

\* The message events delivered to on_message: images and other
\* attachments from member 1 of guild 1, an image from member 2, a message
\* in guild 2, one from a bot, a direct message, the mutating subcommands
\* with and without administrator permission, and the reading subcommands
\* from a member without it.
Messages ==
  {Msg(1, FALSE, FALSE, 1, "none", NONE, s) : s \in AttSeqs \ {<<>>, <<FALSE>>}}
  \cup {Msg(2, FALSE, FALSE, 1, "none", NONE, <<TRUE>>),
        Msg(1, FALSE, FALSE, 2, "none", NONE, <<TRUE>>),
        Msg(1, TRUE, FALSE, 1, "none", NONE, <<TRUE>>),
        Msg(1, FALSE, FALSE, NONE, "none", NONE, <<TRUE>>),
        Msg(2, FALSE, TRUE, NONE, "enable", NONE, <<>>),
        Msg(2, FALSE, FALSE, 1, "reset", NONE, <<>>),
        Msg(2, FALSE, TRUE, 1, "reset", 1, <<TRUE>>),
        Msg(2, FALSE, FALSE, 1, "status", NONE, <<>>),
        Msg(2, FALSE, FALSE, 1, "warnings", 1, <<>>),
        Msg(2, FALSE, FALSE, 1, "warnings", NONE, <<>>),
        Msg(2, FALSE, FALSE, NONE, "help", NONE, <<>>)}
  \cup {Msg(2, FALSE, TRUE, g, "enable", NONE, <<>>) : g \in Guilds}
  \cup {Msg(2, FALSE, TRUE, 1, "disable", NONE, <<>>)}
  \cup {Msg(2, FALSE, TRUE, 1, "reset", u, <<>>) : u \in {NONE, 1}}

NoMsg == Msg(NONE, FALSE, FALSE, NONE, "none", NONE, <<>>)

NoEmbed ==
  [score |-> 0, warning_count |-> 0, duration |-> format_duration(0),
   deleted |-> FALSE, timed_out |-> FALSE, max_escalation |-> FALSE]

\* The ledger data a subcommand's reply shows: kind "status" (enabled, total
\* warnings, warned users), "warnings" (one member's count and, when it is
\* positive, the next timeout), "leaderboard" (the guild's counts), "empty"
\* (no warnings recorded), "help", or "none" for a reply without ledger data
\* (confirmation, rejection).
NoReply ==
  [kind |-> "none", enabled |-> FALSE, total |-> 0, users |-> 0, count |-> 0,
   next |-> format_duration(0), board |-> EmptyMap]

\* One entry of a handler's history: a = "classify" (i the attachment
\* index, v the score), "inc" (v the new count), "delete" (ok), "timeout"
\* (v the duration, ok), "notify" (sent). A handler that returns leaves
\* nothing behind: its record is IdleTask again. `saved` is the value the
\* handler's "await save_data()" evaluated to ("unset" before it returns and
\* once the handler has moved on: no caller keeps it).
Ev(a, i, v, ok) == [a |-> a, i |-> i, v |-> v, ok |-> ok]

IdleTask ==
  [pc |-> "idle", msg |-> NoMsg, idx |-> 0, score |-> 0, warning_count |-> 0,
   timeout_duration |-> 0, deletion_success |-> FALSE, timeout_success |-> FALSE,
   embed |-> NoEmbed, ret |-> "none", buf |-> <<>>, prev |-> <<>>, trace |-> <<>>,
   enforced |-> 0, saved |-> "unset", reply |-> NoReply]

\* The handler's record once handle_nsfw_infraction has sent its embed: the
\* locals of the enforcement are not read again.
Settled(r) ==
  [IdleTask EXCEPT !.pc = r.pc, !.msg = r.msg, !.idx = r.idx, !.ret = r.ret,
                   !.enforced = r.enforced]

\* A handler ended by an exception raised at `at`; nothing of it is kept.
Failed(at) == [IdleTask EXCEPT !.pc = "failed", !.ret = at]

\* A snapshot a previous run left on disk.
SeedData ==
  [enabled_servers |-> (1 :> TRUE),
   user_warnings |-> (1 :> (1 :> 3)),
   moderation_log |-> <<[score |-> 700, count |-> 3, duration |-> 180,
                         deleted |-> TRUE, timed_out |-> TRUE]>>,
   mistyped |-> {}]

NoFile == [exists |-> FALSE, bytes |-> <<>>]

\* The backing file before the first start: absent, a complete document, or
\* a truncated one.
InitialFiles ==
  {NoFile,
   [exists |-> TRUE, bytes |-> dumps(SeedData)],
   [exists |-> TRUE, bytes |-> SubSeq(dumps(SeedData), 1, 4)]}

Keys == Guilds \X Users

Counts(d) == [k \in Keys |-> get_user_warnings(d, k[1], k[2])]

Zeros == [k \in Keys |-> 0]

VARIABLES
  phase,      \* "starting" (constructed, before setup_hook), "up", "down"
  data,       \* bot.data_manager.data
  file,       \* DATA_FILE on disk
  tasks,      \* the on_message handlers in flight
  running,    \* the handler inside a stretch without await (0: none)
  events,     \* messages delivered and process stops so far
  initial,    \* history: each key's count at the last load or reset
  flows,      \* history: enforcement flows that incremented the key since
              \*   (both kept while the process is down, until the next load)
  saveFailed, \* history: a save_data of this run failed
  crashSave,  \* history: the saves the last stop interrupted
  policy,     \* inputs and results of the escalation policy (SpecPolicy)
  ledger      \* history of the ledger operations applied (SpecLedger)

vars == <<phase, data, file, tasks, running, events, initial, flows,
          saveFailed, crashSave, policy, ledger>>

NoCrashSave == [during |-> FALSE, docs |-> {}]

NoPolicy == [c1 |-> 0, c2 |-> 0, d1 |-> 0, d2 |-> 0, f1 |-> format_duration(0), applied |-> FALSE]

\* One ledger call: name "set_enabled", "increment_warning", "reset_warnings"
\* ("none" before the first), with its arguments.
Op(name, guild_id, user_id, enabled) ==
  [name |-> name, guild_id |-> guild_id, user_id |-> user_id, enabled |-> enabled]

\* prev: the snapshot before the last call; lastSet: per guild, the argument
\* of the most recent set_enabled; incremented: the keys incremented so far;
\* fromEmpty: the calls started on the snapshot of __init__.
NoLedger ==
  [op |-> Op("none", NONE, NONE, FALSE), prev |-> DefaultData,
   lastSet |-> [g \in Guilds |-> "never"], incremented |-> {}, fromEmpty |-> TRUE,
   ops |-> 0]

Init ==
  /\ phase = "starting"
  /\ data = DefaultData
  /\ file \in InitialFiles
  /\ tasks = [t \in Tasks |-> IdleTask]
  /\ running = 0
  /\ events = 0
  /\ initial = Zeros
  /\ flows = Zeros
  /\ saveFailed = FALSE
  /\ crashSave = NoCrashSave
  /\ policy = NoPolicy
  /\ ledger = NoLedger
\* ------------------------------------------------ startup and process stop
\* A variant that looks the warnings up under a key the document never has.
load_data_no_warnings(d, f) ==
  IF f.exists THEN
    IF loads_ok(f.bytes)
    THEN [data |-> [loads(f.bytes) EXCEPT !.user_warnings = EmptyMap], save |-> FALSE]
    ELSE [data |-> DefaultData, save |-> TRUE]
  ELSE [data |-> d, save |-> TRUE]

\* load_data: what self.data becomes and whether save_data is called.
load_data(d, f) ==
  IF f.exists THEN
    IF loads_ok(f.bytes) THEN [data |-> loads(f.bytes), save |-> FALSE]
    ELSE [data |-> DefaultData, save |-> TRUE]
  ELSE [data |-> d, save |-> TRUE]

\* setup_hook: load_data, before any event is handled. Its save_data either
\* completes or fails at open (logged).
Load ==
  /\ phase = "starting"
  /\ LET r == load_data(data, file)
     IN  /\ data' = r.data
         /\ initial' = Counts(r.data)
         /\ IF r.save
            THEN \E ok \in BOOLEAN :
                   IF ok
                   THEN /\ file' = [exists |-> TRUE, bytes |-> dumps(r.data)]
                        /\ saveFailed' = saveFailed
                   ELSE /\ file' = file
                        /\ saveFailed' = TRUE
            ELSE UNCHANGED <<file, saveFailed>>
  /\ flows' = Zeros
  /\ phase' = "up"
  /\ UNCHANGED <<tasks, running, events, crashSave, policy, ledger>>

\* The process stops (kill, power loss) at any point. Content handed to an
\* open file object and not yet flushed may have reached the disk in part.
\* Stops draw on the same budget as message events.
Crash ==
  /\ phase = "up"
  /\ events < MaxEvents
  /\ LET S == {t \in Tasks : tasks[t].pc \in {"save_write", "save_close"}}
         W == {t \in Tasks : tasks[t].pc = "save_close"}
     IN  /\ \/ file' = file
            \/ \E t \in W : \E k \in 0..Len(tasks[t].buf) :
                 file' = [exists |-> TRUE,
                          bytes |-> Overlay(file.bytes, SubSeq(tasks[t].buf, 1, k))]
         /\ crashSave' =
              [during |-> S # {},
               docs |-> {tasks[t].prev : t \in S}
                        \cup {(IF tasks[t].pc = "save_close" THEN tasks[t].buf ELSE dumps(data)) :
                              t \in S}]
  /\ phase' = "down"
  /\ events' = events + 1
  /\ data' = DefaultData
  /\ tasks' = [t \in Tasks |-> IdleTask]
  /\ running' = 0
  /\ UNCHANGED <<initial, flows, saveFailed, policy, ledger>>

\* The process is started again: ModerationBot.__init__.
Restart ==
  /\ phase = "down"
  /\ phase' = "starting"
  /\ saveFailed' = FALSE
  /\ crashSave' = NoCrashSave
  /\ UNCHANGED <<data, file, tasks, running, events, initial, flows, policy, ledger>>

\* ------------------------------------------------------------- on_message
Free(t) == phase = "up" /\ running \in {0, t}

SetTask(t, r) == tasks' = [tasks EXCEPT ![t] = r]

\* A message event arrives and its handler is scheduled. Handlers are
\* interchangeable, so the new one takes the lowest free slot.
Deliver(t, m) ==
  /\ phase = "up"
  /\ running = 0
  /\ events < MaxEvents
  /\ tasks[t].pc \in {"idle", "failed"}
  /\ \A o \in Tasks : o < t => tasks[o].pc \notin {"idle", "failed"}
  /\ SetTask(t, [IdleTask EXCEPT !.pc = "start", !.msg = m])
  /\ events' = events + 1
  /\ UNCHANGED <<phase, data, file, running, initial, flows, saveFailed,
                 crashSave, policy, ledger>>

\* on_message up to the dispatch of process_commands, which ignores bot
\* authors and runs the handler of a command message.
OnMessage(t) ==
  /\ Free(t)
  /\ tasks[t].pc = "start"
  /\ LET m == tasks[t].msg
     IN  SetTask(t, IF m.bot THEN IdleTask
                        ELSE IF m.cmd # "none" THEN [tasks[t] EXCEPT !.pc = "cmd"]
                        ELSE [tasks[t] EXCEPT !.pc = "guard"])
  /\ UNCHANGED <<phase, data, file, running, events, initial, flows,
                 saveFailed, crashSave, policy, ledger>>

\* The ledger call of a mutating subcommand.
command_effect(d, m) ==
  IF m.cmd = "enable" THEN set_enabled(d, m.guild, TRUE)
  ELSE IF m.cmd = "disable" THEN set_enabled(d, m.guild, FALSE)
  ELSE reset_warnings(d, m.guild, m.arg)

\* What moderation_status, check_warnings and moderation_help put in their
\* reply.
command_reply(d, m) ==
  LET server_warnings ==
        IF m.guild \in DOMAIN d.user_warnings THEN d.user_warnings[m.guild] ELSE EmptyMap
      warning_count == get_user_warnings(d, m.guild, m.arg)
  IN  IF m.cmd = "status"
      THEN [NoReply EXCEPT !.kind = "status", !.enabled = is_enabled(d, m.guild),
                           !.total = SumValues(server_warnings),
                           !.users = Cardinality(DOMAIN server_warnings)]
      ELSE IF m.cmd = "warnings" /\ m.arg # NONE
      THEN [NoReply EXCEPT !.kind = "warnings", !.count = warning_count,
                           !.next = IF warning_count > 0
                                    THEN format_duration(calculate_timeout(warning_count + 1))
                                    ELSE format_duration(0)]
      ELSE IF m.cmd = "warnings"
      THEN IF DOMAIN server_warnings = {} THEN [NoReply EXCEPT !.kind = "empty"]
           ELSE [NoReply EXCEPT !.kind = "leaderboard", !.board = server_warnings]
      ELSE [NoReply EXCEPT !.kind = "help"]

\* A subcommand up to its first await: the checks it makes, and the ledger
\* call (enable_moderation, disable_moderation, reset_warnings) or the
\* ledger reads (moderation_status, check_warnings); moderation_help makes
\* no check. The group's own callback, which tests for a guild and for
\* administrator permission, does not run when a subcommand is invoked.
Command(t) ==
  /\ Free(t)
  /\ tasks[t].pc = "cmd"
  /\ LET m == tasks[t].msg
     IN  IF m.cmd = "help" \/ (m.guild # NONE /\ m.cmd \in {"status", "warnings"})
         THEN /\ SetTask(t, [tasks[t] EXCEPT !.pc = "cmd_send", !.ret = "guard",
                                              !.reply = command_reply(data, m)])
              /\ UNCHANGED <<data, initial, flows>>
         ELSE IF m.guild = NONE \/ ~m.admin
         THEN /\ SetTask(t, [tasks[t] EXCEPT !.pc = "cmd_reject"])
              /\ UNCHANGED <<data, initial, flows>>
         ELSE /\ data' = command_effect(data, m)
              /\ initial' = [k \in Keys |->
                               IF Counts(data')[k] # Counts(data)[k] THEN 0 ELSE initial[k]]
              /\ flows' = [k \in Keys |->
                             IF Counts(data')[k] # Counts(data)[k] THEN 0 ELSE flows[k]]
              /\ IF m.cmd = "reset"
                 THEN SetTask(t, [tasks[t] EXCEPT !.pc = "cmd_send", !.ret = "save_open"])
                 ELSE SetTask(t, [tasks[t] EXCEPT !.pc = "save_open", !.ret = "cmd_send"])
  /\ UNCHANGED <<phase, file, running, events, saveFailed, crashSave, policy, ledger>>

\* ctx.send of a rejection ("server only", "Access Denied"); the handler
\* returns (or raises, which the command framework absorbs).
CmdReject(t) ==
  /\ Free(t)
  /\ tasks[t].pc = "cmd_reject"
  /\ SetTask(t, [tasks[t] EXCEPT !.pc = "guard"])
  /\ UNCHANGED <<phase, data, file, running, events, initial, flows,
                 saveFailed, crashSave, policy, ledger>>

\* ctx.send of the confirmation. reset sends before it saves; enable and
\* disable send after. A send that raises ends the command handler; the
\* command framework absorbs the exception and on_message goes on.
CmdSend(t) ==
  /\ Free(t)
  /\ tasks[t].pc = "cmd_send"
  /\ \E sent \in BOOLEAN :
       SetTask(t, [tasks[t] EXCEPT
                     !.pc = IF sent /\ tasks[t].ret = "save_open" THEN "save_open" ELSE "guard",
                     !.ret = "guard",
                     !.saved = "unset",
                     !.reply = NoReply])
  /\ UNCHANGED <<phase, data, file, running, events, initial, flows,
                 saveFailed, crashSave, policy, ledger>>

\* The guards of on_message after process_commands.
Guard(t) ==
  /\ Free(t)
  /\ tasks[t].pc = "guard"
  /\ LET m == tasks[t].msg
     IN  IF m.guild = NONE \/ ~is_enabled(data, m.guild)
         THEN SetTask(t, IdleTask) /\ running' = 0
         ELSE /\ SetTask(t, [tasks[t] EXCEPT !.pc = "scan", !.idx = 1, !.saved = "unset"])
              /\ running' = t
  /\ UNCHANGED <<phase, data, file, events, initial, flows, saveFailed,
                 crashSave, policy, ledger>>

\* A variant that gives up on the message at the first analysis error.
scan_step_stop(score) ==
  IF score = ANALYSIS_ERROR THEN "break"
  ELSE IF score > NSFW_THRESHOLD THEN "infraction"
  ELSE "continue"

\* The body of the attachment loop after analyze_image returned `score`.
scan_step(score) ==
  IF score = ANALYSIS_ERROR THEN "continue"
  ELSE IF score > NSFW_THRESHOLD THEN "infraction"
  ELSE "continue"

\* One iteration of "for attachment in message.attachments"; analyze_image
\* is a plain call, so the handler keeps the event loop throughout.
Scan(t) ==
  /\ phase = "up"
  /\ running = t
  /\ tasks[t].pc = "scan"
  /\ LET r == tasks[t]
         n == Len(r.msg.atts)
     IN  IF r.idx > n
         THEN SetTask(t, IdleTask) /\ running' = 0
         ELSE IF ~r.msg.atts[r.idx]
         THEN SetTask(t, [r EXCEPT !.idx = r.idx + 1]) /\ running' = t
         ELSE \E score \in Scores :
                LET step == scan_step(score)
                    seen == Append(r.trace, Ev("classify", r.idx, score, TRUE))
                IN  IF step = "infraction"
                    THEN /\ SetTask(t, [r EXCEPT !.pc = "violation", !.score = score,
                                                 !.trace = seen])
                         /\ running' = t
                    ELSE IF step = "continue"
                    THEN /\ SetTask(t, [r EXCEPT !.idx = r.idx + 1, !.trace = seen])
                         /\ running' = t
                    ELSE /\ SetTask(t, [r EXCEPT !.idx = n + 1, !.trace = seen])
                         /\ running' = t
  /\ UNCHANGED <<phase, data, file, events, initial, flows, saveFailed,
                 crashSave, policy, ledger>>

\* ------------------------------------------------- handle_nsfw_infraction
\* increment_warning, get_user_warnings, calculate_timeout: no await between
\* them; the first await is message.delete().
Violation(t) ==
  /\ phase = "up"
  /\ running = t
  /\ tasks[t].pc = "violation"
  /\ LET r == tasks[t]
         g == r.msg.guild
         u == r.msg.author
         d == increment_warning(data, g, u)
         warning_count == get_user_warnings(d, g, u)
     IN  /\ data' = d
         /\ SetTask(t, [r EXCEPT !.pc = "delete",
                                 !.enforced = r.enforced + 1,
                                 !.warning_count = warning_count,
                                 !.timeout_duration = calculate_timeout(warning_count),
                                 !.trace = Append(r.trace, Ev("inc", 0, warning_count, TRUE))])
         /\ flows' = [flows EXCEPT ![<<g, u>>] = @ + 1]
  /\ running' = 0
  /\ UNCHANGED <<phase, file, events, initial, saveFailed, crashSave, policy, ledger>>

\* A variant that catches discord.Forbidden only.
safe_delete_message_forbidden_only(outcome) ==
  [raised |-> outcome = "error", value |-> outcome = "ok"]

\* True when message.delete() succeeds, False on discord.Forbidden and on
\* any other Exception; nothing propagates (raised is never TRUE).
safe_delete_message(outcome) ==
  [raised |-> FALSE, value |-> outcome = "ok"]

\* True when member.timeout() succeeds, False on discord.Forbidden and on
\* any other Exception; nothing propagates.
safe_timeout_user(outcome) ==
  [raised |-> FALSE, value |-> outcome = "ok"]

Delete(t) ==
  /\ Free(t)
  /\ tasks[t].pc = "delete"
  /\ \E outcome \in Outcomes :
       LET r == tasks[t]
           res == safe_delete_message(outcome)
       IN  SetTask(t, IF res.raised THEN Failed("delete")
                      ELSE [r EXCEPT !.pc = "timeout",
                                     !.deletion_success = res.value,
                                     !.trace = Append(r.trace, Ev("delete", 0, 0, res.value))])
  /\ UNCHANGED <<phase, data, file, running, events, initial, flows,
                 saveFailed, crashSave, policy, ledger>>

Timeout(t) ==
  /\ Free(t)
  /\ tasks[t].pc = "timeout"
  /\ \E outcome \in Outcomes :
       LET r == tasks[t]
           res == safe_timeout_user(outcome)
       IN  SetTask(t, IF res.raised THEN Failed("timeout")
                      ELSE [r EXCEPT !.pc = "notify",
                                     !.timeout_success = res.value,
                                     !.trace = Append(r.trace,
                                                      Ev("timeout", 0, r.timeout_duration,
                                                         res.value))])
  /\ UNCHANGED <<phase, data, file, running, events, initial, flows,
                 saveFailed, crashSave, policy, ledger>>

\* The embed built from the handler's locals.
build_embed(r) ==
  [score |-> r.score, warning_count |-> r.warning_count,
   duration |-> format_duration(r.timeout_duration),
   deleted |-> r.deletion_success, timed_out |-> r.timeout_success,
   max_escalation |-> r.warning_count >= 4]

\* message.channel.send(embed=embed): a send that raises propagates out of
\* handle_nsfw_infraction and on_message.
Notify(t) ==
  /\ Free(t)
  /\ tasks[t].pc = "notify"
  /\ \E sent \in BOOLEAN :
       LET r == tasks[t]
       IN  SetTask(t, IF ~sent THEN Failed("notify")
                      ELSE [r EXCEPT !.pc = "save_open",
                                     !.ret = "break",
                                     !.embed = build_embed(r),
                                     !.trace = Append(r.trace, Ev("notify", 0, 0, TRUE))])
  /\ UNCHANGED <<phase, data, file, running, events, initial, flows,
                 saveFailed, crashSave, policy, ledger>>

\* A variant without the break after handle_nsfw_infraction.
after_infraction_continue(idx, n) == idx + 1

\* "break": the index the attachment loop resumes at (past the end).
after_infraction(idx, n) == n + 1

Break(t) ==
  /\ Free(t)
  /\ tasks[t].pc = "break"
  /\ LET r == tasks[t]
         n == Len(r.msg.atts)
         next == after_infraction(r.idx, n)
     IN  IF next > n
         THEN SetTask(t, IdleTask) /\ running' = 0
         ELSE /\ SetTask(t, [r EXCEPT !.pc = "scan", !.idx = next, !.saved = "unset"])
              /\ running' = t
  /\ UNCHANGED <<phase, data, file, events, initial, flows, saveFailed,
                 crashSave, policy, ledger>>

\* -------------------------------------------------------------- save_data
\* What "await save_data()" evaluates to: the method has no return
\* statement, whether the write went through (ok) or the exception was
\* logged.
save_data_result(ok) == "none"

\* A variant whose except branch re-initializes self.data, as the except
\* branch of load_data does.
save_data_except_reset(d) == DefaultData

\* self.data after the except branch of save_data: the error is logged and
\* nothing else is done.
save_data_except(d) == d

\* aiofiles.open(self.data_file, 'w'): truncates the file; an exception is
\* logged and save_data returns.
SaveOpen(t) ==
  /\ Free(t)
  /\ tasks[t].pc = "save_open"
  /\ \E ok \in BOOLEAN :
       IF ok
       THEN /\ file' = [exists |-> TRUE, bytes |-> <<>>]
            /\ SetTask(t, [Settled(tasks[t]) EXCEPT !.pc = "save_write", !.prev = file.bytes])
            /\ saveFailed' = saveFailed
            /\ data' = data
       ELSE /\ file' = file
            /\ SetTask(t, [Settled(tasks[t]) EXCEPT !.pc = tasks[t].ret, !.ret = "guard",
                                                    !.saved = save_data_result(FALSE)])
            /\ saveFailed' = TRUE
            /\ data' = save_data_except(data)
  /\ UNCHANGED <<phase, running, events, initial, flows, crashSave, policy, ledger>>

\* f.write(json.dumps(self.data, indent=2)): the state is serialized now and
\* handed to the file object, which buffers it.
SaveWrite(t) ==
  /\ Free(t)
  /\ tasks[t].pc = "save_write"
  /\ SetTask(t, [tasks[t] EXCEPT !.pc = "save_close", !.buf = dumps(data)])
  /\ UNCHANGED <<phase, data, file, running, events, initial, flows,
                 saveFailed, crashSave, policy, ledger>>

\* Leaving "async with": the buffer is flushed at this handle's offset 0 and
\* the file is closed.
SaveClose(t) ==
  /\ Free(t)
  /\ tasks[t].pc = "save_close"
  /\ file' = [exists |-> TRUE, bytes |-> Overlay(file.bytes, tasks[t].buf)]
  /\ SetTask(t, [tasks[t] EXCEPT !.pc = tasks[t].ret, !.ret = "guard", !.buf = <<>>,
                                 !.prev = <<>>, !.saved = save_data_result(TRUE)])
  /\ UNCHANGED <<phase, data, running, events, initial, flows, saveFailed,
                 crashSave, policy, ledger>>

Next ==
  \/ Load
  \/ Crash
  \/ Restart
  \/ \E t \in Tasks, m \in Messages : Deliver(t, m)
  \/ \E t \in Tasks : OnMessage(t)
  \/ \E t \in Tasks : Command(t)
  \/ \E t \in Tasks : CmdReject(t)
  \/ \E t \in Tasks : CmdSend(t)
  \/ \E t \in Tasks : Guard(t)
  \/ \E t \in Tasks : Scan(t)
  \/ \E t \in Tasks : Violation(t)
  \/ \E t \in Tasks : Delete(t)
  \/ \E t \in Tasks : Timeout(t)
  \/ \E t \in Tasks : Notify(t)
  \/ \E t \in Tasks : Break(t)
  \/ \E t \in Tasks : SaveOpen(t)
  \/ \E t \in Tasks : SaveWrite(t)
  \/ \E t \in Tasks : SaveClose(t)

Spec == Init /\ [][Next]_vars

\* ----------------------------------------- the escalation policy on its own
PolicyInputs == (0 - MaxCount)..MaxCount

InitPolicy ==
  /\ phase = "starting"
  /\ data = DefaultData
  /\ file = NoFile
  /\ tasks = [t \in Tasks |-> IdleTask]
  /\ running = 0
  /\ events = 0
  /\ initial = Zeros
  /\ flows = Zeros
  /\ saveFailed = FALSE
  /\ crashSave = NoCrashSave
  /\ \E a, b \in PolicyInputs : policy = [NoPolicy EXCEPT !.c1 = a, !.c2 = b]
  /\ ledger = NoLedger

ApplyPolicy ==
  /\ ~policy.applied
  /\ policy' = [policy EXCEPT !.d1 = calculate_timeout(policy.c1),
                              !.d2 = calculate_timeout(policy.c2),
                              !.f1 = format_duration(calculate_timeout(policy.c1)),
                              !.applied = TRUE]
  /\ UNCHANGED <<phase, data, file, tasks, running, events, initial, flows,
                 saveFailed, crashSave, ledger>>

NextPolicy == ApplyPolicy

SpecPolicy == InitPolicy /\ [][NextPolicy]_vars

\* ------------------------------------------- the ledger operations on their own
\* ModerationData's methods applied in any order to the snapshot of __init__
\* or to a loaded one.
InitLedger ==
  /\ phase = "up"
  /\ data \in {DefaultData, SeedData}
  /\ file = NoFile
  /\ tasks = [t \in Tasks |-> IdleTask]
  /\ running = 0
  /\ events = 0
  /\ initial = Zeros
  /\ flows = Zeros
  /\ saveFailed = FALSE
  /\ crashSave = NoCrashSave
  /\ policy = NoPolicy
  /\ ledger = [NoLedger EXCEPT !.prev = data, !.fromEmpty = (data = DefaultData)]

LedgerStep(op, d) ==
  /\ ledger.ops < MaxOps
  /\ data' = d
  /\ ledger' = [ledger EXCEPT
                  !.op = op,
                  !.prev = data,
                  !.ops = @ + 1,
                  !.lastSet = IF op.name = "set_enabled"
                              THEN [@ EXCEPT ![op.guild_id] = IF op.enabled THEN "on" ELSE "off"]
                              ELSE @,
                  !.incremented = IF op.name = "increment_warning"
                                  THEN @ \cup {<<op.guild_id, op.user_id>>}
                                  ELSE @]
  /\ UNCHANGED <<phase, file, tasks, running, events, initial, flows, saveFailed,
                 crashSave, policy>>

ApplySetEnabled ==
  \E g \in Guilds, b \in BOOLEAN :
    LedgerStep(Op("set_enabled", g, NONE, b), set_enabled(data, g, b))

ApplyIncrement ==
  \E g \in Guilds, u \in Users :
    /\ get_user_warnings(data, g, u) < MaxCount
    /\ LedgerStep(Op("increment_warning", g, u, FALSE), increment_warning(data, g, u))

\* The three modes: one member, one guild, everything.
ApplyReset ==
  \E g \in Guilds \cup {NONE}, u \in Users \cup {NONE} :
    /\ g = NONE => u = NONE
    /\ LedgerStep(Op("reset_warnings", g, u, FALSE), reset_warnings(data, g, u))

NextLedger ==
  \/ ApplySetEnabled
  \/ ApplyIncrement
  \/ ApplyReset

SpecLedger == InitLedger /\ [][NextLedger]_vars

\* ------------------------------------------------ startup on any file content
\* Snapshot d with the sections in W replaced by values of another type.
Mistyped(d, W) ==
  [enabled_servers |-> IF 1 \in W THEN EmptyMap ELSE d.enabled_servers,
   user_warnings |-> IF 2 \in W THEN EmptyMap ELSE d.user_warnings,
   moderation_log |-> IF 3 \in W THEN <<>> ELSE d.moderation_log,
   mistyped |-> W]

Prefixes(s) == {SubSeq(s, 1, k) : k \in 0..Len(s)}

\* What load_data may find: no file, an empty or truncated file, a complete
\* document, a top-level array, and objects with sections of another type.
StoreFiles ==
  {NoFile}
  \cup {[exists |-> TRUE, bytes |-> b] :
          b \in UNION {Prefixes(dumps(Mistyped(d, W))) :
                         d \in {DefaultData, SeedData}, W \in SUBSET {1, 2, 3}}}
  \cup {[exists |-> TRUE, bytes |-> <<Tok("open", 1, 0), Tok("close", 1, 0)>>]}

InitStore ==
  /\ phase = "starting"
  /\ data = DefaultData
  /\ file \in StoreFiles
  /\ tasks = [t \in Tasks |-> IdleTask]
  /\ running = 0
  /\ events = 0
  /\ initial = Zeros
  /\ flows = Zeros
  /\ saveFailed = FALSE
  /\ crashSave = NoCrashSave
  /\ policy = NoPolicy
  /\ ledger = NoLedger

\* The process is started, stopped and started again; no event is handled.
NextStore ==
  \/ Load
  \/ Crash
  \/ Restart

SpecStore == InitStore /\ [][NextStore]_vars
\* ================================================================ claims
\* The escalation table as the specification states it (minutes).
TimeoutFor(c) == IF c >= 4 THEN 360 ELSE IF c = 3 THEN 180 ELSE IF c = 2 THEN 60 ELSE 10

\* The handler still holds the locals of handle_nsfw_infraction.
HasLocals(r) ==
  r.pc \in {"delete", "timeout", "notify"} \/ (r.pc = "save_open" /\ r.ret = "break")

Of(r, kind) == {j \in DOMAIN r.trace : r.trace[j].a = kind}

KeyOf(r) == <<r.msg.guild, r.msg.author>>

\* C1: k enforcement flows on one (community, member) key, however they
\* interleave, leave that key's count at its initial value plus k: in every
\* state the count equals the count at the last load or reset of the key
\* plus the number of flows that have incremented it since.
C1_NoLostIncrement ==
  phase = "up" => \A k \in Keys : Counts(data)[k] = initial[k] + flows[k]

\* Two flows for the same key are in flight, both past their increment.
C1_Witness ==
  \E t1, t2 \in Tasks :
    /\ t1 # t2
    /\ tasks[t1].pc \in {"delete", "timeout", "notify"}
    /\ tasks[t2].pc \in {"delete", "timeout", "notify"}
    /\ KeyOf(tasks[t1]) = KeyOf(tasks[t2])
    /\ flows[KeyOf(tasks[t1])] = 2
    /\ Counts(data)[KeyOf(tasks[t1])] = 5

C2_Step(t) ==
  (tasks[t].pc = "violation" /\ tasks'[t].pc = "delete") =>
    LET g == tasks[t].msg.guild
        u == tasks[t].msg.author
        n == get_user_warnings(data, g, u)
    IN  /\ get_user_warnings(data', g, u) = n + 1
        /\ tasks'[t].warning_count = n + 1
        /\ tasks'[t].timeout_duration = TimeoutFor(n + 1)

C2_State(t) ==
  LET r == tasks[t]
  IN  HasLocals(r) =>
        /\ Cardinality(Of(r, "inc")) = 1
        /\ \A j \in Of(r, "inc") : r.trace[j].v = r.warning_count
        /\ \A j \in Of(r, "timeout") : r.trace[j].v = TimeoutFor(r.warning_count)
        /\ r.pc \in {"notify", "save_open"} => Cardinality(Of(r, "timeout")) = 1
        /\ r.pc = "save_open" =>
             /\ r.embed.warning_count = r.warning_count
             /\ r.embed.duration = format_duration(TimeoutFor(r.warning_count))
             /\ r.embed.max_escalation <=> (r.warning_count >= 4)

\* C2: a flow reaching Violation with n prior warnings makes the count n+1,
\* attempts a timeout of timeout_for(n+1), and reports n+1 in the
\* notification, with the maximum-escalation marker exactly when n+1 >= 4;
\* the count it uses is the one of its own increment, whatever other flows
\* do in between.
C2_EscalationUsesOwnCount ==
  [][\A t \in Tasks : C2_Step(t) /\ C2_State(t)']_vars

\* A flow that found 3 prior warnings has sent its notification (count 4,
\* marker set) while another flow has raised the same key to 5.
C2_Witness ==
  \E t \in Tasks :
    /\ tasks[t].pc = "save_open"
    /\ tasks[t].ret = "break"
    /\ tasks[t].embed.warning_count = 4
    /\ tasks[t].embed.max_escalation
    /\ tasks[t].embed.duration = [withHours |-> TRUE, h |-> 6, m |-> 0]
    /\ Counts(data)[KeyOf(tasks[t])] = 5

\* C3: every flow that reached Violation has appended its audit entry
\* (score, resulting count, duration, deletion and timeout outcomes) by the
\* time it starts the save.
C3_AuditAppended ==
  \A t \in Tasks :
    (tasks[t].pc = "save_open" /\ tasks[t].ret = "break") =>
      \E i \in DOMAIN data.moderation_log :
        data.moderation_log[i] =
          [score |-> tasks[t].score, count |-> tasks[t].warning_count,
           duration |-> tasks[t].timeout_duration,
           deleted |-> tasks[t].deletion_success,
           timed_out |-> tasks[t].timeout_success]

\* C4: timeout_for is 10 minutes, 1 hour, 3 hours for counts 1, 2, 3 and
\* 6 hours for every count >= 4; over counts >= 1 it is non-decreasing and
\* never above 6 hours.
C4_TimeoutTable ==
  policy.applied =>
    /\ policy.c1 = 1 => policy.d1 = 10
    /\ policy.c1 = 2 => policy.d1 = 60
    /\ policy.c1 = 3 => policy.d1 = 180
    /\ policy.c1 >= 4 => policy.d1 = 360
    /\ policy.c1 >= 1 => policy.d1 <= 360
    /\ (1 <= policy.c1 /\ policy.c1 <= policy.c2) => policy.d1 <= policy.d2

\* The policy applied to counts 4 and 6: both at the maximum.
C4_Witness ==
  /\ policy.applied
  /\ policy.c1 = 4
  /\ policy.c2 = 6
  /\ policy.d1 = 360
  /\ policy.d2 = 360

\* C5: every count <= 0 gets the timeout of count 1 (10 minutes), so that
\* timeout_for is non-decreasing over all integers.
C5_NonPositiveAsOne ==
  policy.applied =>
    /\ policy.c1 <= 0 => policy.d1 = 10
    /\ policy.c1 <= policy.c2 => policy.d1 <= policy.d2

\* C6: a message causes at most one enforcement (one increment, deletion
\* attempt, timeout attempt, notification); it uses the score of the first
\* attachment, in arrival order, scoring strictly above the threshold; and
\* no attachment is classified once the enforcement has begun.
C6_FirstViolationWins ==
  \A t \in Tasks :
    LET r == tasks[t]
    IN  /\ r.enforced <= 1
        /\ r.pc \in {"scan", "violation"} => r.enforced = 0
        /\ \A kind \in {"inc", "delete", "timeout", "notify"} :
             Cardinality(Of(r, kind)) <= 1
        /\ (r.pc = "violation" \/ HasLocals(r)) =>
             /\ Of(r, "classify") # {}
             /\ \A j \in Of(r, "classify") :
                  /\ r.trace[j].i <= r.idx
                  /\ r.trace[j].i = r.idx => r.trace[j].v = r.score
                  /\ r.trace[j].i < r.idx => r.trace[j].v <= NSFW_THRESHOLD
             /\ \E j \in Of(r, "classify") : r.trace[j].i = r.idx
             /\ r.score > NSFW_THRESHOLD
             /\ \A j \in Of(r, "classify"), k \in DOMAIN r.trace :
                  r.trace[k].a # "classify" => j < k

\* A message with two images whose first one was flagged: the enforcement is
\* over and the second image was never classified.
C6_Witness ==
  \E t \in Tasks :
    /\ tasks[t].pc = "break"
    /\ tasks[t].msg.atts = <<TRUE, TRUE>>
    /\ tasks[t].idx = 1
    /\ tasks[t].enforced = 1

\* C7: an attachment for which the classifier returns the failure sentinel
\* causes no increment, no audit entry and no enforcement, is classified
\* once only, and the scan goes on with the next attachment: while a
\* handler scans, the attachments classified are exactly the images before
\* the current index, each once, none above the threshold, and nothing has
\* been enforced; an enforcement never rests on the sentinel.
C7_SentinelSkipped ==
  /\ data.moderation_log \in {<<>>, SeedData.moderation_log}
  /\ \A t \in Tasks :
       LET r == tasks[t]
           n == Len(r.msg.atts)
       IN  /\ \A j, k \in Of(r, "classify") : j < k => r.trace[j].i < r.trace[k].i
           /\ r.pc = "scan" =>
                /\ r.enforced = 0
                /\ Of(r, "classify") = DOMAIN r.trace
                /\ {r.trace[j].i : j \in Of(r, "classify")}
                     = {i \in 1..n : i < r.idx /\ r.msg.atts[i]}
                /\ \A j \in Of(r, "classify") : r.trace[j].v <= NSFW_THRESHOLD
           /\ (r.pc = "violation" \/ HasLocals(r)) =>
                /\ r.score # ANALYSIS_ERROR
                /\ {r.trace[j].i : j \in Of(r, "classify")}
                     = {i \in 1..n : i <= r.idx /\ r.msg.atts[i]}

\* The first image of a message failed to classify, the second was flagged
\* and is being enforced.
C7_Witness ==
  \E t \in Tasks :
    /\ tasks[t].pc = "delete"
    /\ Len(tasks[t].trace) = 3
    /\ tasks[t].trace[1] = Ev("classify", 1, ANALYSIS_ERROR, TRUE)
    /\ tasks[t].trace[2].a = "classify"
    /\ tasks[t].trace[2].i = 2
    /\ tasks[t].trace[3].a = "inc"

C8_Step(t) ==
  (tasks[t].pc \in {"delete", "timeout", "notify"} /\ tasks'[t] # tasks[t] /\ phase' = "up") =>
    /\ data' = data
    /\ tasks[t].pc = "delete" => tasks'[t].pc = "timeout"
    /\ tasks[t].pc = "timeout" => tasks'[t].pc = "notify"
    /\ tasks[t].pc = "notify" =>
         \/ tasks'[t].pc = "save_open" /\ tasks'[t].ret = "break"
         \/ tasks'[t] = Failed("notify")

C8_State(t) ==
  LET r == tasks[t]
  IN  /\ r.pc = "failed" => r.ret = "notify"
      /\ r.pc \in {"timeout", "notify"} =>
           /\ Cardinality(Of(r, "delete")) = 1
           /\ \A j \in Of(r, "delete") : r.trace[j].ok = r.deletion_success
      /\ r.pc = "notify" =>
           /\ Cardinality(Of(r, "timeout")) = 1
           /\ \A j \in Of(r, "timeout") :
                /\ r.trace[j].ok = r.timeout_success
                /\ \A k \in Of(r, "delete") : k < j
      /\ (r.pc = "save_open" /\ r.ret = "break") =>
           /\ \A j \in Of(r, "delete") : r.embed.deleted = r.trace[j].ok
           /\ \A j \in Of(r, "timeout") : r.embed.timed_out = r.trace[j].ok
           /\ Cardinality(Of(r, "delete")) = 1
           /\ Cardinality(Of(r, "timeout")) = 1
           /\ Cardinality(Of(r, "notify")) = 1

\* C8: whatever the outcomes of the deletion and of the timeout, the flow
\* attempts the timeout after the deletion, leaves the ledger as the
\* increment made it, reports both outcomes in the notification and goes on
\* to the save; only a notification that cannot be sent ends it early.
C8_FailuresDoNotAbort ==
  [][\A t \in Tasks : C8_Step(t) /\ C8_State(t)']_vars

\* Deletion and timeout both failed, the notification says so, and the flow
\* is about to save with its increment in the ledger.
C8_Witness ==
  \E t \in Tasks :
    /\ tasks[t].pc = "save_open"
    /\ tasks[t].ret = "break"
    /\ ~tasks[t].embed.deleted
    /\ ~tasks[t].embed.timed_out
    /\ Counts(data)[KeyOf(tasks[t])] = tasks[t].warning_count

\* C9: a process stop during a save leaves the file holding either the
\* complete previous document or the complete new one.
C9_SaveAtomic ==
  (phase = "down" /\ crashSave.during /\ ~saveFailed) => file.bytes \in crashSave.docs

\* C10: once every save that was started has finished (and none failed),
\* the file holds one complete well-formed document.
C10_NoMixture ==
  (/\ phase = "up"
   /\ ~saveFailed
   /\ \A t \in Tasks : tasks[t].pc \notin {"save_write", "save_close"})
  => loads_ok(file.bytes)

\* The last ledger call was reset_warnings in the mode covering key k.
ResetCovers(op, k) ==
  /\ op.name = "reset_warnings"
  /\ op.guild_id \in {NONE, k[1]}
  /\ op.user_id \in {NONE, k[2]}

\* C14: reset_warnings(community, member) makes that member's count 0 and
\* leaves every other count as it was; reset_warnings(community) zeroes the
\* members of that community only; reset_warnings() zeroes every count; each
\* mode applied a second time changes nothing, and none changes the
\* enablement map or the audit sequence.
C14_ResetFrame ==
  ledger.op.name = "reset_warnings" =>
    /\ \A k \in Keys :
         get_user_warnings(data, k[1], k[2]) =
           IF ResetCovers(ledger.op, k) THEN 0
           ELSE get_user_warnings(ledger.prev, k[1], k[2])
    /\ data.enabled_servers = ledger.prev.enabled_servers
    /\ data.moderation_log = ledger.prev.moderation_log
    /\ reset_warnings(data, ledger.op.guild_id, ledger.op.user_id) = data

\* One member of a guild was reset while another member of the same guild
\* keeps a count, in a ledger with an enabled guild and an audit entry.
C14_Witness ==
  /\ ledger.op = Op("reset_warnings", 1, 2, FALSE)
  /\ get_user_warnings(ledger.prev, 1, 2) > 0
  /\ get_user_warnings(data, 1, 2) = 0
  /\ get_user_warnings(data, 1, 1) = 3
  /\ is_enabled(data, 1)
  /\ Len(data.moderation_log) = 1

\* C17: is_enabled(c) is the argument of the most recent set_enabled(c, .),
\* and false when there was none; get_warning_count is 0 for a key never
\* incremented; set_enabled applied a second time changes nothing, and it
\* changes no other community's flag and no warning count.
C17_EnablementAlgebra ==
  /\ \A g \in Guilds :
       /\ ledger.lastSet[g] = "on" =>
            (g \in DOMAIN data.enabled_servers /\ data.enabled_servers[g])
       /\ ledger.lastSet[g] = "off" =>
            (g \in DOMAIN data.enabled_servers /\ ~data.enabled_servers[g])
       /\ (ledger.lastSet[g] = "never" /\ ledger.fromEmpty) => ~is_enabled(data, g)
       /\ ledger.lastSet[g] = "on" <=> (ledger.lastSet[g] # "never" /\ is_enabled(data, g))
  /\ \A k \in Keys :
       (k \notin ledger.incremented /\ ledger.fromEmpty) =>
         get_user_warnings(data, k[1], k[2]) = 0
  /\ ledger.op.name = "set_enabled" =>
       /\ \A g \in Guilds \ {ledger.op.guild_id} :
            is_enabled(data, g) = is_enabled(ledger.prev, g)
       /\ Counts(data) = Counts(ledger.prev)
       /\ data.user_warnings = ledger.prev.user_warnings
       /\ set_enabled(data, ledger.op.guild_id, ledger.op.enabled) = data

\* Guild 1 was enabled and then disabled while guild 2 stays enabled and a
\* member keeps a count.
C17_Witness ==
  /\ ledger.op = Op("set_enabled", 1, NONE, FALSE)
  /\ is_enabled(ledger.prev, 1)
  /\ ~is_enabled(data, 1)
  /\ is_enabled(data, 2)
  /\ ledger.lastSet = (1 :> "off") @@ (2 :> "on")
  /\ get_user_warnings(data, 2, 1) = 1

\* C11: what a save writes, read back by load, is a snapshot with the same
\* enablement map, warning counts and audit sequence as the one saved, so
\* that is_enabled and get_warning_count answer alike for every community
\* and member.
C11_RoundTrip ==
  [][\A t \in Tasks :
       (tasks[t].pc = "save_write" /\ tasks'[t].pc = "save_close") =>
         LET r == load_data(DefaultData, [exists |-> TRUE, bytes |-> tasks'[t].buf])
         IN  /\ ~r.save
             /\ r.data.enabled_servers = data.enabled_servers
             /\ r.data.user_warnings = data.user_warnings
             /\ r.data.moderation_log = data.moderation_log
             /\ \A g \in Guilds : is_enabled(r.data, g) = is_enabled(data, g)
             /\ Counts(r.data) = Counts(data)]_vars

\* A save has serialized a snapshot with an enabled guild, a count raised
\* since the load and an audit entry.
C11_Witness ==
  \E t \in Tasks :
    /\ tasks[t].pc = "save_close"
    /\ tasks[t].buf = dumps(data)
    /\ is_enabled(data, 1)
    /\ get_user_warnings(data, 1, 1) = 4
    /\ Len(data.moderation_log) = 1

\* The section keys of document s whose value has another type than the
\* dict, dict of dicts or list expected.
MistypedSections(s) == {s[i].a : i \in {j \in DOMAIN s : s[j].t = "sec" /\ s[j].b = 1}}

\* C12: when the file is absent, unparsable or structurally invalid, load
\* leaves the empty default snapshot in memory and persists it (unless the
\* write fails), and a load of what is then on disk gives the empty default
\* again.
C12_LoadFallsBack ==
  [][(/\ phase = "starting"
      /\ phase' = "up"
      /\ \/ ~file.exists
         \/ ~loads_ok(file.bytes)
         \/ MistypedSections(file.bytes) # {})
     => /\ data' = DefaultData
        /\ ~saveFailed' => file' = [exists |-> TRUE, bytes |-> dumps(DefaultData)]
        /\ load_data(DefaultData, file').data = DefaultData]_vars

\* C20: once load has completed, whatever the file held, the snapshot in
\* memory has its three sections of the expected types: a document whose
\* sections have another type is not taken as the snapshot.
C20_LoadedWellTyped ==
  phase = "up" => data.mistyped = {}

\* C13: save hands its caller an outcome: a failure result when the write
\* to the file failed, success when it went through.
C13_SaveReportsOutcome ==
  [][\A t \in Tasks :
       /\ (/\ tasks[t].pc = "save_open"
           /\ tasks'[t].pc \notin {"save_open", "save_write"}
           /\ phase' = "up") => tasks'[t].saved = "failure"
       /\ (/\ tasks[t].pc = "save_close"
           /\ tasks'[t].pc # "save_close"
           /\ phase' = "up") => tasks'[t].saved = "success"]_vars

\* The handler has changed the ledger and has not called save_data yet.
Unsaved(r) ==
  r.pc \in {"delete", "timeout", "notify"} \/ (r.pc = "cmd_send" /\ r.ret = "save_open")

\* C15: a handler that has changed the ledger (an enforcement's increment,
\* enable, disable, reset) calls save before it finishes, whatever the
\* outcome of its deletion, timeout, notification or reply: it never goes
\* from a change not yet saved straight to its end.
C15_MutationThenSave ==
  [][\A t \in Tasks :
       (Unsaved(tasks[t]) /\ phase' = "up") =>
         tasks'[t].pc \notin {"idle", "failed", "guard"}]_vars

\* The stages of the moderation pipeline behind the guards.
InPipeline(r) ==
  r.pc \in {"scan", "violation", "delete", "timeout", "notify", "break"}
    \/ (r.pc \in {"save_open", "save_write", "save_close"} /\ r.ret = "break")

C16_Step(t) ==
  LET r == tasks[t]
      g == r.msg.guild
      enabled == g \in DOMAIN data.enabled_servers /\ data.enabled_servers[g]
  IN  /\ (r.pc = "start" /\ r.msg.bot /\ tasks'[t] # r /\ phase' = "up") =>
           (tasks'[t] = IdleTask /\ data' = data /\ file' = file)
      /\ (r.pc = "guard" /\ (g = NONE \/ ~enabled) /\ tasks'[t] # r /\ phase' = "up") =>
           (tasks'[t] = IdleTask /\ data' = data /\ file' = file)
      /\ (InPipeline(tasks'[t]) /\ ~InPipeline(r)) =>
           (r.pc = "guard" /\ ~r.msg.bot /\ g # NONE /\ enabled)

C16_State(t) ==
  LET r == tasks[t]
  IN  /\ (r.trace # <<>> \/ r.enforced > 0) => InPipeline(r)
      /\ InPipeline(r) => (~r.msg.bot /\ r.msg.guild # NONE)

\* C16: a message from a bot, or outside a guild, or in a guild that is not
\* enabled when the guard is evaluated, ends at that guard: the pipeline
\* classifies nothing, increments nothing, enforces nothing and saves
\* nothing for it; the pipeline is only entered through the guards.
C16_GuardsShield ==
  [][\A t \in Tasks : C16_Step(t) /\ C16_State(t)']_vars

\* An image posted in a guild without enablement entry has reached the
\* guard while another guild is enabled.
C16_Witness ==
  \E t \in Tasks :
    /\ tasks[t].pc = "guard"
    /\ tasks[t].msg.guild = 2
    /\ tasks[t].msg.atts = <<TRUE>>
    /\ 2 \notin DOMAIN data.enabled_servers
    /\ is_enabled(data, 1)

\* C18: a subcommand (enable, disable, status, warnings, reset, help)
\* invoked by a member without administrator permission is rejected: its
\* reply shows no ledger data and the ledger stays as it was.
C18_AdminGated ==
  [][\A t \in Tasks :
       (/\ tasks[t].pc = "cmd"
        /\ ~tasks[t].msg.admin
        /\ tasks'[t] # tasks[t]
        /\ phase' = "up")
       => (/\ tasks'[t].pc = "cmd_reject"
           /\ tasks'[t].reply = NoReply
           /\ data' = data)]_vars

\* The step is the reset subcommand's ledger call, in a mode covering key k.
ResetStep(k) ==
  \E t \in Tasks :
    /\ tasks[t].pc = "cmd"
    /\ tasks'[t] # tasks[t]
    /\ tasks[t].msg.cmd = "reset"
    /\ tasks[t].msg.guild = k[1]
    /\ tasks[t].msg.arg \in {NONE, k[2]}

\* C19: the count get_warning_count shows for a key is never negative and
\* never lower than what it showed before, unless a reset covering the key
\* came in between: from one state of a run to the next, and from the last
\* state of a run to the state after the next start's load.
C19_CountsNeverDrop ==
  [][\A k \in Keys :
       /\ phase' = "up" => get_user_warnings(data', k[1], k[2]) >= 0
       /\ (phase = "up" /\ phase' = "up") =>
            \/ get_user_warnings(data', k[1], k[2]) >= get_user_warnings(data, k[1], k[2])
            \/ ResetStep(k)
       /\ (phase = "starting" /\ phase' = "up") =>
            get_user_warnings(data', k[1], k[2]) >= initial[k] + flows[k]]_vars

\* The next statement of handler t is the call of analyze_image for the
\* attachment at its index.
Classifying(t) ==
  LET r == tasks[t]
  IN  /\ phase = "up"
      /\ r.pc = "scan"
      /\ r.idx <= Len(r.msg.atts)
      /\ r.msg.atts[r.idx]

\* Some step of handler t.
HandlerStep(t) ==
  \/ OnMessage(t) \/ Command(t) \/ CmdReject(t) \/ CmdSend(t) \/ Guard(t)
  \/ Scan(t) \/ Violation(t) \/ Delete(t) \/ Timeout(t) \/ Notify(t) \/ Break(t)
  \/ SaveOpen(t) \/ SaveWrite(t) \/ SaveClose(t)

\* C21: classification is a suspension point: while a handler waits for the
\* classifier's result, every other handler that has work to do (another
\* message's pipeline, a subcommand) can take its next step.
C21_ClassificationSuspends ==
  \A t, o \in Tasks :
    (t # o /\ Classifying(t) /\ tasks[o].pc \notin {"idle", "failed"}) =>
      ENABLED HandlerStep(o)

C22_Step(t) ==
  LET r == tasks[t]
  IN  /\ (/\ r.pc = "save_open"
          /\ tasks'[t].pc \notin {"save_open", "save_write"}
          /\ phase' = "up")
         => /\ saveFailed'
            /\ data' = data
            /\ tasks'[t].pc = r.ret
            /\ r.ret \in {"break", "cmd_send", "guard"}
      /\ (saveFailed /\ r.pc = "save_write" /\ tasks'[t].pc = "save_close")
         => LET doc == tasks'[t].buf
            IN  /\ loads_ok(doc)
                /\ loads(doc) = data
                /\ \A k \in Keys :
                     get_user_warnings(loads(doc), k[1], k[2]) = initial[k] + flows[k]
      /\ (saveFailed /\ r.pc = "save_close" /\ tasks'[t].pc # "save_close" /\ phase' = "up")
         => /\ file'.exists
            /\ Len(file'.bytes) >= Len(r.buf)
            /\ SubSeq(file'.bytes, 1, Len(r.buf)) = r.buf

\* C22: a save that fails leaves the snapshot in memory as it was and the
\* handler that called it goes on; a later save that succeeds serializes
\* and writes the snapshot in memory, which holds the change whose save
\* failed and every change made since (for the counts: the count at load
\* plus all increments of the run).
C22_FailedSaveKeepsMemory ==
  [][\A t \in Tasks : C22_Step(t)]_vars

\* A save of this run failed and a later save has serialized the snapshot
\* with both increments of the run, the unsaved one included.
C22_Witness ==
  /\ saveFailed
  /\ flows[<<1, 1>>] = 2
  /\ \E t \in Tasks :
       /\ tasks[t].pc = "save_close"
       /\ tasks[t].buf = dumps(data)
       /\ get_user_warnings(loads(tasks[t].buf), 1, 1) = 5

\* C23: whenever no handler is in flight (hence no save in progress) and no
\* save of this run has failed, the file holds the snapshot in memory: the
\* save completed last reflects every change made before it started,
\* however saves and changes interleaved.
C23_FileMatchesMemory ==
  (/\ phase = "up"
   /\ ~saveFailed
   /\ \A t \in Tasks : tasks[t].pc \in {"idle", "failed"})
  => (/\ file.exists
      /\ loads_ok(file.bytes)
      /\ loads(file.bytes) = data)
====
